---- MODULE Spec2Model ----
(***************************************************************************)
(* Model of the arena graph of doums/tap (src/src/graph.rs): the node and  *)
(* edge arenas, the three insertion operations and the two traversal       *)
(* iterators (Successors, Ancestors).                                      *)
(*                                                                         *)
(* NodeIndex(i) and EdgeIndex(i) are the naturals i; the element with      *)
(* index i of a Vec is the element i + 1 of the sequence that models it.   *)
(* Option<T> is a record: None, or Some(v).                                *)
(* A panic is an outcome of the call ("invalid edge", "invalid index"): the *)
(* state keeps whatever the call had done before it panicked, and nothing  *)
(* runs after it (no caller catches the unwind).                           *)
(***************************************************************************)
EXTENDS Integers, Sequences, FiniteSets

\* nodes, edges: the two arenas of the Graph.
\* it:           the Successors or Ancestors value the caller holds, or NoIter.
\* out, done:    the items next() has returned on `it`, and whether it has
\*               returned None.
\* last:         the last call: its name, its arguments, its return value or
\*               panic message, and for an insertion the arena lengths
\*               before it (n0, e0).
\* inserted:     the pairs (source, target) that add_edge has pushed.
VARIABLES nodes, edges, it, out, done, last, inserted

vars == <<nodes, edges, it, out, done, last, inserted>>

\* Bound of the model: the two arenas together hold at most MaxSize
\* elements.
MaxSize == 6

\* The payload T of the node pushed when the arena holds i nodes. Graph<T> is
\* generic in T and never reads data, so distinct payloads are the most
\* general input: every other choice is an image of this one.
Payload(i) == <<"data", i>>

None == [some |-> FALSE]
Some(v) == [some |-> TRUE, v |-> v]

\* Node::new and Edge::new.
Node(first_edge, data) == [first_edge |-> first_edge, data |-> data]
Edge(source, target, next_edge) ==
    [source |-> source, target |-> target, next_edge |-> next_edge]

\* Index<NodeIndex> for Vec<Node<T>>, Index<EdgeIndex> for Vec<Edge>.
At(v, i) == v[i + 1]

\* Graph::new.
Graph(ns, es) == [nodes |-> ns, edges |-> es]
new == Graph(<<>>, <<>>)

\* add_node with the index read after the push instead of before it.
add_node_index_after_push(g, data) ==
    [g |-> Graph(Append(g.nodes, Node(None, data)), g.edges),
     outcome |-> "ok",
     ret |-> Len(g.nodes) + 1]

\* Graph::add_node: the graph after the call and the returned index.
add_node(g, data) ==
    [g |-> Graph(Append(g.nodes, Node(None, data)), g.edges),
     outcome |-> "ok",
     ret |-> Len(g.nodes)]

\* The first panic condition without the source == target test.
add_edge_invalid_no_loop_test(g, source, target) ==
    \/ Len(g.nodes) < 2
    \/ source >= Len(g.nodes)
    \/ target >= Len(g.nodes)

\* The first panic condition with `target.0 > len` for `target.0 >= len`.
add_edge_invalid_target_off_by_one(g, source, target) ==
    \/ Len(g.nodes) < 2
    \/ source = target
    \/ source >= Len(g.nodes)
    \/ target > Len(g.nodes)

\* The first panic condition of Graph::add_edge.
add_edge_invalid(g, source, target) ==
    \/ Len(g.nodes) < 2
    \/ source = target
    \/ source >= Len(g.nodes)
    \/ target >= Len(g.nodes)

\* The duplicate scan with source and target compared crosswise.
add_edge_duplicate_swapped(g, source, target) ==
    \E i \in 1..Len(g.edges) :
        g.edges[i].source = target /\ g.edges[i].target = source

\* The second panic condition of Graph::add_edge: the pair is already there.
add_edge_duplicate(g, source, target) ==
    \E i \in 1..Len(g.edges) :
        g.edges[i].source = source /\ g.edges[i].target = target

\* The push with the new edge's next_edge left None: the chain is cut.
add_edge_push_cuts_chain(g, source, target) ==
    LET index == Len(g.edges)
    IN Graph([g.nodes EXCEPT ![source + 1].first_edge = Some(index)],
             Append(g.edges, Edge(source, target, None)))

\* The push with the edge put in front of the arena (insert(0, ..) for push):
\* every older edge moves to the next index.
add_edge_push_inserts_front(g, source, target) ==
    LET index == Len(g.edges)
        node_source == At(g.nodes, source)
    IN Graph([g.nodes EXCEPT ![source + 1].first_edge = Some(index)],
             <<Edge(source, target, node_source.first_edge)>> \o g.edges)

\* The push with the new head written to the target node instead of the
\* source node.
add_edge_push_relinks_target(g, source, target) ==
    LET index == Len(g.edges)
        node_source == At(g.nodes, source)
    IN Graph([g.nodes EXCEPT ![target + 1].first_edge = Some(index)],
             Append(g.edges, Edge(source, target, node_source.first_edge)))

\* The push with next_edge read from the target node (`&self.nodes[target]`
\* for `&self.nodes[source]`).
add_edge_push_reads_target_head(g, source, target) ==
    LET index == Len(g.edges)
        node_source == At(g.nodes, target)
    IN Graph([g.nodes EXCEPT ![source + 1].first_edge = Some(index)],
             Append(g.edges, Edge(source, target, node_source.first_edge)))

\* The successful tail of Graph::add_edge: push the edge in front of the
\* chain of source.
add_edge_push(g, source, target) ==
    LET index == Len(g.edges)
        node_source == At(g.nodes, source)
    IN Graph([g.nodes EXCEPT ![source + 1].first_edge = Some(index)],
             Append(g.edges, Edge(source, target, node_source.first_edge)))

\* add_edge with the duplicate scan run after the push: the panic leaves the
\* second copy of the edge in the arena.
add_edge_scans_after_push(g, source, target) ==
    IF add_edge_invalid(g, source, target)
    THEN [g |-> g, outcome |-> "invalid edge"]
    ELSE IF add_edge_duplicate(g, source, target)
    THEN [g |-> add_edge_push(g, source, target), outcome |-> "invalid edge"]
    ELSE [g |-> add_edge_push(g, source, target), outcome |-> "ok"]

\* Graph::add_edge.
add_edge(g, source, target) ==
    IF add_edge_invalid(g, source, target)
    THEN [g |-> g, outcome |-> "invalid edge"]
    ELSE IF add_edge_duplicate(g, source, target)
    THEN [g |-> g, outcome |-> "invalid edge"]
    ELSE [g |-> add_edge_push(g, source, target), outcome |-> "ok"]

\* add_node_to with the arguments of add_edge exchanged.
add_node_to_swapped(g, to, data) ==
    LET n == add_node(g, data)
        e == add_edge(n.g, n.ret, to)
    IN [g |-> e.g, outcome |-> e.outcome,
        ret |-> IF e.outcome = "ok" THEN Some(n.ret) ELSE None]

\* add_node_to with `to` tested before the node is pushed.
add_node_to_tests_first(g, to, data) ==
    IF to >= Len(g.nodes)
    THEN [g |-> g, outcome |-> "invalid edge", ret |-> None]
    ELSE LET n == add_node(g, data)
             e == add_edge(n.g, to, n.ret)
         IN [g |-> e.g, outcome |-> e.outcome,
             ret |-> IF e.outcome = "ok" THEN Some(n.ret) ELSE None]

\* Graph::add_node_to: add_node, then add_edge(to, index); the panic of
\* add_edge leaves the node that add_node pushed.
add_node_to(g, to, data) ==
    LET n == add_node(g, data)
        e == add_edge(n.g, to, n.ret)
    IN [g |-> e.g, outcome |-> e.outcome,
        ret |-> IF e.outcome = "ok" THEN Some(n.ret) ELSE None]

\* ------------------------------------------------------------------------
\* The iterators.

NoIter == [kind |-> "none"]

\* The root scan with edge.source tested for edge.target.
RECURSIVE roots_from_tests_source(_, _)
roots_from_tests_source(g, i) ==
    IF i >= Len(g.nodes) THEN <<>>
    ELSE IF ~ \E k \in 1..Len(g.edges) : g.edges[k].source = i
    THEN <<i>> \o roots_from_tests_source(g, i + 1)
    ELSE roots_from_tests_source(g, i + 1)

\* The root scan of Successors::new: the indexes i, ascending from `i`, that
\* no edge targets.
RECURSIVE roots_from(_, _)
roots_from(g, i) ==
    IF i >= Len(g.nodes) THEN <<>>
    ELSE IF ~ \E k \in 1..Len(g.edges) : g.edges[k].target = i
    THEN <<i>> \o roots_from(g, i + 1)
    ELSE roots_from(g, i + 1)

\* Successors::new; source is an Option<NodeIndex>.
Successors_new(g, source) ==
    IF source.some
    THEN IF source.v >= Len(g.nodes)
         THEN [outcome |-> "invalid index", it |-> NoIter]
         ELSE [outcome |-> "ok",
               it |-> [kind |-> "Successors",
                       edges |-> Some(g.edges),
                       current_edge_index |-> At(g.nodes, source.v).first_edge,
                       roots |-> None,
                       current_root_index |-> 0]]
    ELSE [outcome |-> "ok",
          it |-> [kind |-> "Successors",
                  edges |-> None,
                  current_edge_index |-> None,
                  roots |-> Some(roots_from(g, 0)),
                  current_root_index |-> 0]]

\* Graph::successors.
successors(g, source) == Successors_new(g, source)

\* next that ends the chain one edge early: it stops at the edge whose
\* next_edge is None instead of yielding it.
Successors_next_stops_early(self) ==
    IF self.roots.some
    THEN IF self.current_root_index < Len(self.roots.v)
         THEN [self |-> [self EXCEPT !.current_root_index = @ + 1],
               item |-> Some(At(self.roots.v, self.current_root_index))]
         ELSE [self |-> self, item |-> None]
    ELSE IF self.edges.some /\ self.current_edge_index.some
    THEN LET edge == At(self.edges.v, self.current_edge_index.v)
         IN IF edge.next_edge.some
            THEN [self |-> [self EXCEPT !.current_edge_index = edge.next_edge],
                  item |-> Some(edge.target)]
            ELSE [self |-> self, item |-> None]
    ELSE [self |-> self, item |-> None]

\* <Successors as Iterator>::next: the iterator after the call and the item.
Successors_next(self) ==
    IF self.roots.some
    THEN IF Len(self.roots.v) = 0
         THEN [self |-> self, item |-> None]
         ELSE IF self.current_root_index < Len(self.roots.v)
         THEN [self |-> [self EXCEPT !.current_root_index = @ + 1],
               item |-> Some(At(self.roots.v, self.current_root_index))]
         ELSE [self |-> self, item |-> None]
    ELSE IF self.edges.some
    THEN IF Len(self.edges.v) = 0
         THEN [self |-> self, item |-> None]
         ELSE IF ~ self.current_edge_index.some
         THEN [self |-> self, item |-> None]
         ELSE LET edge == At(self.edges.v, self.current_edge_index.v)
              IN [self |-> [self EXCEPT !.current_edge_index = edge.next_edge],
                  item |-> Some(edge.target)]
    ELSE [self |-> self, item |-> None]

\* The loop with edge.target pushed for edge.source.
RECURSIVE ancestors_scan_pushes_target(_, _, _, _)
ancestors_scan_pushes_target(g, from, k, data) ==
    IF k > Len(g.edges) THEN data
    ELSE LET edge == g.edges[k]
         IN IF edge.target = from
               /\ (~ \E j \in 1..Len(data) : data[j] = edge.source)
               /\ edge.source # from
            THEN ancestors_scan_pushes_target(g, from, k + 1,
                                              Append(data, edge.target))
            ELSE ancestors_scan_pushes_target(g, from, k + 1, data)

\* The loop of Ancestors::new over the edges k, k + 1, ... that target `from`.
RECURSIVE ancestors_scan(_, _, _, _)
ancestors_scan(g, from, k, data) ==
    IF k > Len(g.edges) THEN data
    ELSE LET edge == g.edges[k]
         IN IF edge.target = from
               /\ (~ \E j \in 1..Len(data) : data[j] = edge.source)
               /\ edge.source # from
            THEN ancestors_scan(g, from, k + 1, Append(data, edge.source))
            ELSE ancestors_scan(g, from, k + 1, data)

\* Ancestors::new with `from.0 > len` for `from.0 >= len`.
Ancestors_new_off_by_one(g, from) ==
    IF from > Len(g.nodes)
    THEN [outcome |-> "invalid index", it |-> NoIter]
    ELSE [outcome |-> "ok",
          it |-> [kind |-> "Ancestors",
                  data |-> ancestors_scan(g, from, 1, <<>>),
                  current_index |-> 0]]

\* Ancestors::new.
Ancestors_new(g, from) ==
    IF from >= Len(g.nodes)
    THEN [outcome |-> "invalid index", it |-> NoIter]
    ELSE [outcome |-> "ok",
          it |-> [kind |-> "Ancestors",
                  data |-> ancestors_scan(g, from, 1, <<>>),
                  current_index |-> 0]]

\* Graph::ancestors.
ancestors(g, source) == Ancestors_new(g, source)

\* next without `self.current_index += 1`.
Ancestors_next_no_advance(self) ==
    IF Len(self.data) = 0
    THEN [self |-> self, item |-> None]
    ELSE IF self.current_index < Len(self.data)
    THEN [self |-> self,
          item |-> Some(At(self.data, self.current_index))]
    ELSE [self |-> self, item |-> None]

\* <Ancestors as Iterator>::next.
Ancestors_next(self) ==
    IF Len(self.data) = 0
    THEN [self |-> self, item |-> None]
    ELSE IF self.current_index < Len(self.data)
    THEN [self |-> [self EXCEPT !.current_index = @ + 1],
          item |-> Some(At(self.data, self.current_index))]
    ELSE [self |-> self, item |-> None]

\* What a caller collects from an iterator: the items up to the first None.
RECURSIVE Successors_collect(_)
Successors_collect(self) ==
    LET r == Successors_next(self)
    IN IF r.item.some THEN <<r.item.v>> \o Successors_collect(r.self) ELSE <<>>

RECURSIVE Ancestors_collect(_)
Ancestors_collect(self) ==
    LET r == Ancestors_next(self)
    IN IF r.item.some THEN <<r.item.v>> \o Ancestors_collect(r.self) ELSE <<>>

\* ------------------------------------------------------------------------
\* The state machine: one caller that owns the graph, calls its operations
\* and holds at most one iterator at a time.
\*
\* Successors<'a> borrows the graph, so no insertion compiles while one is
\* held. Ancestors has no lifetime and owns its data: the caller may insert
\* while it holds one, and next() goes on over the data collected when
\* ancestors() was called.

\* The graph the caller owns.
G == Graph(nodes, edges)

\* The node indexes a caller passes: the valid ones and the first invalid
\* one. add_node_to pushes a node before it looks at `to`, so its caller
\* also passes the index after that one.
Handles == 0..Len(nodes)
HandlesTo == 0..(Len(nodes) + 1)

\* The last call panicked: the program has unwound.
Panicked == last.op \notin {"new", "drop"} /\ last.outcome # "ok"

Init ==
    /\ nodes = new.nodes
    /\ edges = new.edges
    /\ it = NoIter
    /\ out = <<>>
    /\ done = FALSE
    /\ last = [op |-> "new"]
    /\ inserted = {}

\* graph.add_node(data)
AddNode(data) ==
    /\ ~ Panicked
    /\ it.kind # "Successors"
    /\ LET r == add_node(G, data)
       IN /\ Len(r.g.nodes) + Len(r.g.edges) <= MaxSize
          /\ nodes' = r.g.nodes
          /\ edges' = r.g.edges
          /\ last' = [op |-> "add_node", outcome |-> r.outcome,
                      ret |-> r.ret, n0 |-> Len(nodes), e0 |-> Len(edges)]
    /\ UNCHANGED <<it, out, done, inserted>>

\* graph.add_node_to(to, data)
AddNodeTo(to, data) ==
    /\ ~ Panicked
    /\ it.kind # "Successors"
    /\ LET r == add_node_to(G, to, data)
       IN /\ Len(r.g.nodes) + Len(r.g.edges) <= MaxSize
          /\ nodes' = r.g.nodes
          /\ edges' = r.g.edges
          /\ last' = [op |-> "add_node_to", to |-> to,
                      outcome |-> r.outcome, ret |-> r.ret,
                      n0 |-> Len(nodes), e0 |-> Len(edges)]
          /\ inserted' = IF r.outcome = "ok"
                         THEN inserted \cup {<<to, r.ret.v>>}
                         ELSE inserted
    /\ UNCHANGED <<it, out, done>>

\* graph.add_edge(source, target)
AddEdge(source, target) ==
    /\ ~ Panicked
    /\ it.kind # "Successors"
    /\ LET r == add_edge(G, source, target)
       IN /\ Len(r.g.nodes) + Len(r.g.edges) <= MaxSize
          /\ nodes' = r.g.nodes
          /\ edges' = r.g.edges
          /\ last' = [op |-> "add_edge", source |-> source, target |-> target,
                      outcome |-> r.outcome,
                      n0 |-> Len(nodes), e0 |-> Len(edges)]
          /\ inserted' = IF r.outcome = "ok"
                         THEN inserted \cup {<<source, target>>}
                         ELSE inserted
    /\ UNCHANGED <<it, out, done>>

\* graph.successors(source)
CallSuccessors(source) ==
    /\ ~ Panicked
    /\ it = NoIter
    /\ LET r == successors(G, source)
       IN /\ it' = r.it
          /\ last' = [op |-> "successors", source |-> source,
                      outcome |-> r.outcome]
    /\ out' = <<>>
    /\ done' = FALSE
    /\ UNCHANGED <<nodes, edges, inserted>>

\* graph.ancestors(from)
CallAncestors(from) ==
    /\ ~ Panicked
    /\ it = NoIter
    /\ LET r == ancestors(G, from)
       IN /\ it' = r.it
          /\ last' = [op |-> "ancestors", source |-> from,
                      outcome |-> r.outcome]
    /\ out' = <<>>
    /\ done' = FALSE
    /\ UNCHANGED <<nodes, edges, inserted>>

\* successors.next()
SuccessorsNext ==
    /\ ~ Panicked
    /\ it.kind = "Successors"
    /\ LET r == Successors_next(it)
       IN /\ it' = r.self
          /\ out' = IF r.item.some THEN Append(out, r.item.v) ELSE out
          /\ done' = ~ r.item.some
    /\ UNCHANGED <<nodes, edges, last, inserted>>

\* ancestors.next()
AncestorsNext ==
    /\ ~ Panicked
    /\ it.kind = "Ancestors"
    /\ LET r == Ancestors_next(it)
       IN /\ it' = r.self
          /\ out' = IF r.item.some THEN Append(out, r.item.v) ELSE out
          /\ done' = ~ r.item.some
    /\ UNCHANGED <<nodes, edges, last, inserted>>

\* The iterator goes out of scope.
Drop ==
    /\ ~ Panicked
    /\ it # NoIter
    /\ it' = NoIter
    /\ out' = <<>>
    /\ done' = FALSE
    /\ last' = [op |-> "drop"]
    /\ UNCHANGED <<nodes, edges, inserted>>

Next ==
    \/ AddNode(Payload(Len(nodes)))
    \/ \E to \in HandlesTo : AddNodeTo(to, Payload(Len(nodes)))
    \/ \E source, target \in Handles : AddEdge(source, target)
    \/ \E source \in {None} \cup {Some(h) : h \in Handles} : CallSuccessors(source)
    \/ \E from \in Handles : CallAncestors(from)
    \/ SuccessorsNext
    \/ AncestorsNext
    \/ Drop

Spec == Init /\ [][Next]_vars

\* ------------------------------------------------------------------------
\* What the properties below talk about.

Range(s) == {s[i] : i \in 1..Len(s)}

NodeIndexes == 0..(Len(nodes) - 1)

\* What a caller collects from graph.successors(Some(h)), graph.ancestors(h)
\* and graph.successors(None) in the current state, h a valid index.
SuccessorsOf(h) == Successors_collect(successors(G, Some(h)).it)
AncestorsOf(h) == Ancestors_collect(ancestors(G, h).it)
Roots == Successors_collect(successors(G, None).it)

\* The pairs (source, target) of the edge arena.
EdgePairs == {<<edges[i].source, edges[i].target>> : i \in 1..Len(edges)}

\* The nodes from which a path of one or more edges reaches `from`.
RECURSIVE IncomingClosure(_, _)
IncomingClosure(from, S) ==
    LET T == S \cup {p[1] : p \in {q \in EdgePairs : q[2] \in S \cup {from}}}
    IN IF T = S THEN S ELSE IncomingClosure(from, T)

\* The targets of the edges k, k - 1, ..., 1 whose source is h: from the
\* most recently inserted edge to the oldest.
RECURSIVE TargetsNewestFirst(_, _)
TargetsNewestFirst(h, k) ==
    IF k = 0 THEN <<>>
    ELSE IF edges[k].source = h
    THEN <<edges[k].target>> \o TargetsNewestFirst(h, k - 1)
    ELSE TargetsNewestFirst(h, k - 1)

\* The nodes that no edge targets.
Untargeted == {n \in NodeIndexes : \A p \in EdgePairs : p[2] # n}

\* ------------------------------------------------------------------------
\* C1: every edge (s, t) that add_edge or add_node_to inserted stays visible
\* after any further insertions: t is among successors(s) and s is among
\* ancestors(t).
C1_InsertedEdgeVisible ==
    \A p \in inserted :
        /\ p[2] \in Range(SuccessorsOf(p[1]))
        /\ p[1] \in Range(AncestorsOf(p[2]))

\* An edge inserted by add_edge is followed by a later successful add_node_to
\* from the same source.
C1_Witness ==
    /\ Len(edges) >= 2
    /\ last.op = "add_node_to" /\ last.outcome = "ok"
    /\ last.to = edges[1].source
    /\ <<edges[1].source, edges[1].target>> \in inserted
    /\ edges[1].target < edges[1].source

\* C2 (as claimed): ancestors(from) yields exactly the nodes n # from with a
\* path of one or more edges into from.
C2_AncestorsTransitive ==
    \A from \in NodeIndexes :
        Range(AncestorsOf(from)) = IncomingClosure(from, {}) \ {from}

\* C3: no two edges of the arena have the same (source, target), and an
\* add_edge(s, t) issued while an edge (s, t) exists ends with "invalid edge".
C3_NoDuplicateEdge ==
    /\ \A i, j \in 1..Len(edges) :
           i # j => <<edges[i].source, edges[i].target>>
                      # <<edges[j].source, edges[j].target>>
    /\ (last.op = "add_edge"
          /\ \E i \in 1..last.e0 :
                 edges[i].source = last.source /\ edges[i].target = last.target)
       => last.outcome = "invalid edge"

\* add_edge(s, t) with s, t valid and distinct was refused because the edge
\* was there.
C3_Witness ==
    /\ last.op = "add_edge" /\ last.outcome = "invalid edge"
    /\ last.source # last.target
    /\ last.source < Len(nodes) /\ last.target < Len(nodes)
    /\ <<last.source, last.target>> \in EdgePairs

\* C4: add_edge(x, x) ends with "invalid edge" in every state, and no edge
\* has source = target.
C4_NoSelfLoop ==
    /\ (last.op = "add_edge" /\ last.source = last.target)
       => last.outcome = "invalid edge"
    /\ \A i \in 1..Len(edges) : edges[i].source # edges[i].target

\* add_edge(x, x) with x valid on a graph of two nodes or more.
C4_Witness ==
    /\ last.op = "add_edge" /\ last.source = last.target
    /\ last.source < Len(nodes) /\ Len(nodes) >= 2
    /\ last.outcome = "invalid edge"

\* C5: add_edge(source, target) with source or target >= the node count ends
\* with "invalid edge", and every edge's endpoints are < the node count.
C5_EndpointsInRange ==
    /\ (last.op = "add_edge" /\ (last.source >= last.n0 \/ last.target >= last.n0))
       => last.outcome = "invalid edge"
    /\ \A i \in 1..Len(edges) :
           edges[i].source < Len(nodes) /\ edges[i].target < Len(nodes)

\* add_edge(s, t) with s valid and t the node count, on two nodes or more.
C5_Witness ==
    /\ last.op = "add_edge" /\ last.outcome = "invalid edge"
    /\ Len(nodes) >= 2
    /\ last.source < Len(nodes) /\ last.target = Len(nodes)

\* C6: add_node returns the node count before the call, the count is then
\* one larger, and the new node has no first edge.
C6_AddNodeReturnsCount ==
    last.op = "add_node" =>
        /\ last.outcome = "ok"
        /\ last.ret = last.n0
        /\ Len(nodes) = last.n0 + 1
        /\ At(nodes, last.ret).first_edge = None

\* add_node on a graph that already holds nodes and an edge.
C6_Witness ==
    /\ last.op = "add_node" /\ last.n0 >= 2 /\ Len(edges) >= 1

\* C7: successors(h) and ancestors(h) with h >= the node count end with
\* "invalid index" and hand out no iterator.
C7_InvalidIndexFails ==
    /\ (last.op = "successors" /\ last.source.some /\ last.source.v >= Len(nodes))
       => (last.outcome = "invalid index" /\ it = NoIter)
    /\ (last.op = "ancestors" /\ last.source >= Len(nodes))
       => (last.outcome = "invalid index" /\ it = NoIter)

\* ancestors(h) with h the node count of a graph that has an edge.
C7_Witness ==
    /\ last.op = "ancestors" /\ last.source >= Len(nodes)
    /\ Len(edges) >= 1
    /\ last.outcome = "invalid index"

\* C8: successors(None) yields exactly the nodes no edge targets, each once,
\* in ascending order (so nothing on the empty graph and on a graph whose
\* nodes all have an incoming edge).
C8_RootsAscending ==
    /\ Range(Roots) = Untargeted
    /\ \A i, j \in 1..Len(Roots) : i < j => Roots[i] < Roots[j]
    /\ (last.op = "successors" /\ ~ last.source.some /\ done) => out = Roots

\* The caller drained roots() of a graph with two roots and a non-root.
C8_Witness ==
    /\ last.op = "successors" /\ ~ last.source.some /\ done
    /\ Len(out) = 2 /\ Len(nodes) = 3
    /\ out[1] # 0

\* C9: successors(h) yields exactly the targets of the edges whose source is
\* h, from the most recently inserted edge to the oldest, then ends.
C9_SuccessorsLifo ==
    /\ \A h \in NodeIndexes : SuccessorsOf(h) = TargetsNewestFirst(h, Len(edges))
    /\ (last.op = "successors" /\ last.source.some /\ done)
       => out = TargetsNewestFirst(last.source.v, Len(edges))

\* The caller drained successors(h) of a node with two outgoing edges.
C9_Witness ==
    /\ last.op = "successors" /\ last.source.some /\ done
    /\ Len(out) = 2

\* C10: add_node_to(to, data) fails exactly when to >= the node count before
\* the call; otherwise it returns that count, and the new node is the first
\* successor of `to` and is no root.
C10_AddNodeTo ==
    last.op = "add_node_to" =>
        /\ (last.outcome # "ok") <=> (last.to >= last.n0)
        /\ last.outcome = "ok" =>
            /\ last.ret = Some(last.n0)
            /\ <<last.to, last.n0>> \in EdgePairs
            /\ SuccessorsOf(last.to)[1] = last.n0
            /\ last.n0 \notin Range(Roots)

\* add_node_to under a node that already had a successor.
C10_Witness ==
    /\ last.op = "add_node_to" /\ last.outcome = "ok"
    /\ Len(SuccessorsOf(last.to)) = 2

\* C11: the arenas only grow and what a handle refers to never changes: over
\* every step the node and edge counts do not decrease, every node keeps its
\* payload, and every edge keeps its source, target and next_edge.
C11_ArenasAppendOnly ==
    [][/\ Len(nodes') >= Len(nodes)
       /\ Len(edges') >= Len(edges)
       /\ \A i \in 1..Len(nodes) : nodes'[i].data = nodes[i].data
       /\ \A i \in 1..Len(edges) : edges'[i] = edges[i]]_vars

\* An insertion went through with older edges in the arena and changed the
\* first_edge of a node that holds a payload.
C11_Witness ==
    /\ last.op = "add_edge" /\ last.outcome = "ok"
    /\ Len(edges) = 3
    /\ At(nodes, last.source).first_edge = Some(2)
    /\ At(nodes, last.source).data = Payload(last.source)

\* C12: a successful add_edge(source, target) appends one edge, at the index
\* that was the edge count, whose next_edge is the first_edge the source node
\* had; it makes that index the source node's first_edge and leaves the node
\* count, the other first_edges, the payloads and the older edges as they
\* were. (A step that changes the arenas or the call record is the call; a
\* next() on an Ancestors held across it changes neither.)
C12_AddEdgeEffect ==
    [][(last'.op = "add_edge" /\ last'.outcome = "ok") =>
         /\ edges' = Append(edges, Edge(last'.source, last'.target,
                                        At(nodes, last'.source).first_edge))
         /\ Len(nodes') = Len(nodes)
         /\ \A i \in 1..Len(nodes) :
                /\ nodes'[i].data = nodes[i].data
                /\ nodes'[i].first_edge =
                       IF i = last'.source + 1
                       THEN Some(Len(edges)) ELSE nodes[i].first_edge
      ]_<<nodes, edges, last>>

\* add_edge succeeded from a source that already had a first edge, while
\* another node has one too.
C12_Witness ==
    /\ last.op = "add_edge" /\ last.outcome = "ok"
    /\ edges[Len(edges)].next_edge.some
    /\ \E i \in 1..Len(nodes) :
           i # last.source + 1 /\ nodes[i].first_edge.some

\* The first-seen depth-first order the claim describes: scan the edges k,
\* k + 1, ... in insertion order; an edge into `current` whose source is not
\* `from` and not yet in `data` is recorded, and its own incoming edges are
\* expanded before the scan goes on.
RECURSIVE DepthFirstAncestors(_, _, _, _)
DepthFirstAncestors(from, current, k, data) ==
    IF k > Len(edges) THEN data
    ELSE LET edge == edges[k]
         IN IF edge.target = current
               /\ edge.source \notin Range(data)
               /\ edge.source # from
            THEN DepthFirstAncestors(from, current, k + 1,
                     DepthFirstAncestors(from, edge.source, 1,
                                         Append(data, edge.source)))
            ELSE DepthFirstAncestors(from, current, k + 1, data)

\* C13 (as claimed): ancestors(from) is the depth-first discovery order over
\* incoming edges: each direct parent, in the order of its edge, followed by
\* its own not yet collected ancestors.
C13_AncestorsDepthFirst ==
    \A from \in NodeIndexes :
        AncestorsOf(from) = DepthFirstAncestors(from, from, 1, <<>>)

\* C14: on every graph, cyclic or not, ancestors(from) never yields from
\* itself and never yields a node twice; on the two-node cycle 0 -> 1, 1 -> 0
\* ancestors(1) is [0] and ancestors(0) is [1].
C14_AncestorsNoSelfNoRepeat ==
    /\ \A from \in NodeIndexes :
           LET a == AncestorsOf(from)
           IN /\ from \notin Range(a)
              /\ \A i, j \in 1..Len(a) : i # j => a[i] # a[j]
    /\ EdgePairs = {<<0, 1>>, <<1, 0>>}
       => (AncestorsOf(1) = <<0>> /\ AncestorsOf(0) = <<1>>)
    /\ (last.op = "ancestors" /\ last.outcome = "ok" /\ done)
       => out = AncestorsOf(last.source)

\* The caller drained ancestors(1) on the two-node cycle.
C14_Witness ==
    /\ EdgePairs = {<<0, 1>>, <<1, 0>>}
    /\ last.op = "ancestors" /\ last.source = 1 /\ done
    /\ out = <<0>>

\* C15: every traversal ends. Each next() either returns an item, which the
\* caller appends to `out`, or None; the items returned never outnumber the
\* nodes (roots, ancestors) or the edges (successors of a node), so None
\* comes after finitely many calls, and once it has come nothing is left.
C15_TraversalsEnd ==
    /\ it.kind = "Successors"
       => /\ Len(out) <= (IF it.roots.some THEN Len(nodes) ELSE Len(edges))
          /\ done => Successors_collect(it) = <<>>
    /\ it.kind = "Ancestors"
       => /\ Len(out) <= Len(nodes)
          /\ done => Ancestors_collect(it) = <<>>

\* ancestors(2) was drained on 0 -> 1, 1 -> 0, 0 -> 2: a cycle among the
\* nodes above 2 that does not pass through 2.
C15_Witness ==
    /\ EdgePairs = {<<0, 1>>, <<1, 0>>, <<0, 2>>}
    /\ last.op = "ancestors" /\ last.source = 2
    /\ it.kind = "Ancestors" /\ done

\* C16: an add_edge that panics, whatever the reason, leaves the graph as it
\* was: the same nodes (so the same first_edges) and the same edges.
C16_FailedAddEdgeNoEffect ==
    [][(last'.op = "add_edge" /\ last'.outcome # "ok")
         => (nodes' = nodes /\ edges' = edges)]_vars

\* add_edge was refused as a duplicate on a graph with two edges from the
\* same source.
C16_Witness ==
    /\ last.op = "add_edge" /\ last.outcome = "invalid edge"
    /\ <<last.source, last.target>> \in EdgePairs
    /\ Len(edges) >= 2
    /\ At(nodes, last.source).first_edge.some
    /\ At(edges, At(nodes, last.source).first_edge.v).next_edge.some

\* C17: an add_node_to that panics has already pushed its node: the node
\* count is one larger, the new node has no first edge, and the older nodes
\* and the edges are as they were.
C17_FailedAddNodeToKeepsNode ==
    [][(last'.op = "add_node_to" /\ last'.outcome # "ok") =>
         /\ Len(nodes') = Len(nodes) + 1
         /\ SubSeq(nodes', 1, Len(nodes)) = nodes
         /\ nodes'[Len(nodes')].first_edge = None
         /\ edges' = edges]_vars

\* add_node_to(to, _) panicked with `to` out of range on a graph that has an
\* edge.
C17_Witness ==
    /\ last.op = "add_node_to" /\ last.outcome = "invalid edge"
    /\ last.to = last.n0 + 1
    /\ Len(nodes) = last.n0 + 1
    /\ Len(edges) >= 1

\* The edge indexes whose source is n.
EdgesFrom(n) == {e \in 0..(Len(edges) - 1) : At(edges, e).source = n}

\* The edge indexes met by following next_edge from the Option<EdgeIndex> o,
\* in the order met.
RECURSIVE ChainFrom(_)
ChainFrom(o) ==
    IF o.some THEN <<o.v>> \o ChainFrom(At(edges, o.v).next_edge) ELSE <<>>

\* C18: the adjacency chains are well formed. An edge's next_edge, when
\* present, is a smaller index of an edge with the same source; a node's
\* first_edge is None iff the node has no outgoing edge and is otherwise the
\* largest index among its outgoing edges; so the walk from first_edge along
\* next_edge meets every outgoing edge of the node once and ends.
C18_ChainsWellFormed ==
    /\ \A e \in 0..(Len(edges) - 1) :
           LET edge == At(edges, e)
           IN edge.next_edge.some =>
                  /\ edge.next_edge.v < e
                  /\ At(edges, edge.next_edge.v).source = edge.source
    /\ \A n \in NodeIndexes :
           LET first == At(nodes, n).first_edge
           IN /\ first.some <=> EdgesFrom(n) # {}
              /\ first.some =>
                     /\ first.v \in EdgesFrom(n)
                     /\ \A e \in EdgesFrom(n) : e <= first.v
    /\ \A n \in NodeIndexes :
           LET chain == ChainFrom(At(nodes, n).first_edge)
           IN /\ Range(chain) = EdgesFrom(n)
              /\ Len(chain) = Cardinality(EdgesFrom(n))

\* One node has two outgoing edges, with an edge of another node pushed
\* between them.
C18_Witness ==
    /\ Len(edges) = 3
    /\ edges[3].next_edge = Some(0)
    /\ edges[2].source # edges[3].source
    /\ At(nodes, edges[2].source).first_edge = Some(1)

====
